---- MODULE Spec2Model ----
(***************************************************************************)
(* State-machine model of eggroll.deepspeed.submit.client.DeepspeedJob:    *)
(* one handle, driven by a single synchronous caller.  Every public method *)
(* is a call that runs step by step from pc = "idle"/"done" to pc = "done" *)
(* with outcome "returned" or "raised".  The RPC client, the job server,   *)
(* the destroy collaborator, the clock and the file system are the         *)
(* environment: their answers are nondeterministic choices.                *)
(***************************************************************************)
EXTENDS Integers, Sequences, FiniteSets, TLC

VARIABLES
    session_id,   \* self._session_id
    host,         \* self._host
    port,         \* self._port
    constructed,  \* history: the fields as __init__ left them
    pc,           \* position of the caller inside the current method
    op,           \* the method being run
    args,         \* its arguments
    local,        \* its local variables
    requests,     \* requests handed to do_sync_request during this call
    now,          \* time.time(), in seconds since the call began
    handles,      \* file handles currently open
    fs,           \* files written by this call: path -> bytes
    writes,       \* the writes of this call, in order: <<path, bytes>>
    outcome,      \* "none" | "returned" | "raised"
    result        \* returned value or raised error

vars == <<session_id, host, port, constructed, pc, op, args, local, requests,
          now, handles, fs, writes, outcome, result>>

handle == <<session_id, host, port, constructed>>

----------------------------------------------------------------------------
(* Bounds of the model *)

MaxTimeout == 2      \* largest positive timeout of await_finished
MaxPoll == 2         \* largest poll_interval
MaxLatency == 1      \* longest a status query blocks, in seconds
MaxQueries == 4      \* status queries per await_finished call
MaxRanks == 2        \* longest ranks list
MaxContent == 2      \* longest container_content of a response
MaxFiles == 2        \* most entries in files
MaxZipped == 1       \* most entries in zipped_files

----------------------------------------------------------------------------
(* Values *)

None == "None"

\* An Optional[...] argument holding a list or a dict: None, or the value.
Absent == [given |-> FALSE, value |-> <<>>]

Given(v) == [given |-> TRUE, value |-> v]

Optional(S) == {Absent} \cup {Given(v) : v \in S}

\* SessionStatus: the two non-terminal values and two of the others.
STATUS_NEW == "NEW"
STATUS_ACTIVE == "ACTIVE"
Statuses == {STATUS_NEW, STATUS_ACTIVE, "FINISHED", "ERROR"}

\* class ContentType and its to_proto.
ContentType == {"ALL", "MODELS", "LOGS"}

to_proto(ct) ==
    CASE ct = "ALL" -> "containers_pb2.ALL"
      [] ct = "MODELS" -> "containers_pb2.MODELS"
      [] ct = "LOGS" -> "containers_pb2.LOGS"

\* SessionConfKeys.CONFKEY_SESSION_ID, the reserved key of options.
CONFKEY_SESSION_ID == "eggroll.session.id"

OptionKeys == {CONFKEY_SESSION_ID, "user.key"}

\* A string is the sequence of the parts it was formatted from.
SessionIds == {<<"sid_a">>}

\* session ids written by __init__ from the wall clock.
Timestamps == {"20240101-000000-000001"}

DefaultSessionId(ts) == <<"deepspeed_session_", ts>>

Hosts == {None, "h1"}

Ranks == {2, 5}

Bytes == {"b1", "b2"}

LocalPaths == {"/p1", "/p2"}

\* What is stored at a local path given to submit.
FileContent(path) == <<"bytes of", path>>

NoFile == "absent"

RECURSIVE SeqsUpTo(_, _)
SeqsUpTo(S, n) ==
    IF n = 0 THEN {<<>>}
    ELSE LET shorter == SeqsUpTo(S, n - 1)
         IN shorter \cup {Append(s, x) : s \in {t \in shorter : Len(t) = n - 1}, x \in S}

Min(a, b) == IF a < b THEN a ELSE b

----------------------------------------------------------------------------
(* __init__ *)

NewHandle(sid, h, p) ==
    [session_id |-> sid, host |-> h, port |-> p]

Init ==
    /\ \E given \in Optional(SessionIds), ts \in Timestamps, h \in Hosts :
          LET sid == IF ~given.given THEN DefaultSessionId(ts) ELSE given.value
              hd == NewHandle(sid, h, IF h = None THEN None ELSE "4670")
          IN /\ session_id = hd.session_id
             /\ host = hd.host
             /\ port = hd.port
             /\ constructed = hd
    /\ pc = "idle"
    /\ op = "none"
    /\ args = <<>>
    /\ local = <<>>
    /\ requests = <<>>
    /\ now = 0
    /\ handles = {}
    /\ fs = <<>>
    /\ writes = <<>>
    /\ outcome = "none"
    /\ result = None

----------------------------------------------------------------------------
(* Shared plumbing *)

\* _get_client(): a client bound to the handle's endpoint.
GetClient == [host |-> host, port |-> port]

\* do_sync_request: the request leaves through a fresh client.
Dispatch(command, body) ==
    Append(requests, [command_uri |-> command, client |-> GetClient, request |-> body])

\* The caller is between two method calls.
CanCall == pc = "idle"

\* A method begins with its arguments bound and its locals initialised.
Begin(o, a, l, p) ==
    /\ op' = o
    /\ args' = a
    /\ local' = l
    /\ pc' = p
    /\ UNCHANGED <<handle, requests, now, handles, fs, writes, outcome, result>>

Return(v) ==
    /\ pc' = "done"
    /\ outcome' = "returned"
    /\ result' = v

Raise(e) ==
    /\ pc' = "done"
    /\ outcome' = "raised"
    /\ result' = e

----------------------------------------------------------------------------
(* query_status, query_session, kill: one request carrying session_id *)

SimpleCommands ==
    [query_status |-> "QUERY_JOB_STATUS", query_session |-> "QUERY_JOB", kill |-> "KILL_JOB"]

SimpleCall ==
    /\ CanCall
    /\ \E o \in DOMAIN SimpleCommands :
          Begin(o, <<>>, <<>>, "simple_dispatch")

SimpleDispatch ==
    /\ pc = "simple_dispatch"
    /\ requests' = Dispatch(SimpleCommands[op], [session_id |-> session_id])
    /\ \E ok \in BOOLEAN :
          IF ok THEN Return(<<"response to", SimpleCommands[op]>>)
          ELSE Raise("TransportError")
    /\ UNCHANGED <<handle, op, args, local, now, handles, fs, writes>>

----------------------------------------------------------------------------
(* await_finished *)

Timeouts == (-1) .. MaxTimeout

PollIntervals == 0 .. MaxPoll

\* Faulty variant: NEW is taken for a final status.
MutRunningOnlyActive(status) == status = STATUS_ACTIVE

\* The statuses the loop keeps polling on.
Running(status) == status \in {STATUS_NEW, STATUS_ACTIVE}

\* Faulty variant: a turn may still start when the clock reads the deadline.
MutLoopCondOffByOne(timeout, t, deadline) == timeout <= 0 \/ t <= deadline

\* The while condition.
LoopCond(timeout, t, deadline) == timeout <= 0 \/ t < deadline

\* Faulty variant: the sleep is cut short at the deadline.
MutSleepClamped(poll_interval, t, deadline) ==
    Min(poll_interval, IF deadline > t THEN deadline - t ELSE 0)

\* time.sleep(poll_interval) inside the loop: how long the caller sleeps.
SleepFor(poll_interval, t, deadline) == poll_interval

AwaitCall ==
    /\ CanCall
    /\ \E timeout \in Timeouts, poll_interval \in PollIntervals :
        Begin("await_finished",
              [timeout |-> timeout, poll_interval |-> poll_interval],
              [deadline |-> now + timeout, query_response |-> None, seen |-> <<>>,
               issued_at |-> 0, slept |-> <<>>],
              "await_first_query")

\* self.query_status() as await_finished calls it: the request goes out at
\* `now`, the answer arrives up to MaxLatency later, or the call fails.
AwaitQueryStatus(next_pc) ==
    /\ Len(local.seen) < MaxQueries
    /\ requests' = Dispatch("QUERY_JOB_STATUS", [session_id |-> session_id])
    /\ \E latency \in 0 .. MaxLatency :
        /\ now' = now + latency
        /\ \/ /\ \E status \in Statuses :
                    local' = [local EXCEPT !.query_response = status,
                                           !.seen = Append(@, status),
                                           !.issued_at = now]
              /\ pc' = next_pc
              /\ UNCHANGED <<outcome, result>>
           \/ /\ local' = [local EXCEPT !.issued_at = now]
              /\ Raise("TransportError")
    /\ UNCHANGED <<handle, op, args, handles, fs, writes>>

AwaitFirstQuery ==
    /\ pc = "await_first_query"
    /\ AwaitQueryStatus("await_loop")

AwaitLoopCond ==
    /\ pc = "await_loop"
    /\ IF LoopCond(args.timeout, now, local.deadline)
       THEN pc' = "await_check" /\ UNCHANGED <<outcome, result>>
       ELSE Return(local.query_response)
    /\ UNCHANGED <<handle, op, args, local, requests, now, handles, fs, writes>>

AwaitCheck ==
    /\ pc = "await_check"
    /\ IF ~Running(local.query_response)
       THEN Return(local.query_response)
       ELSE pc' = "await_query" /\ UNCHANGED <<outcome, result>>
    /\ UNCHANGED <<handle, op, args, local, requests, now, handles, fs, writes>>

AwaitQuery ==
    /\ pc = "await_query"
    /\ AwaitQueryStatus("await_sleep")

AwaitSleep ==
    /\ pc = "await_sleep"
    /\ LET d == SleepFor(args.poll_interval, now, local.deadline)
       IN /\ now' = now + d
          /\ local' = [local EXCEPT !.slept = Append(@, d)]
    /\ pc' = "await_loop"
    /\ UNCHANGED <<handle, op, args, requests, handles, fs, writes, outcome, result>>

----------------------------------------------------------------------------
(* submit *)

DefaultTimeoutSeconds == 300

\* A dict argument that defaults to {} when None (a list of entries here).
OrEmpty(d) == IF ~d.given THEN <<>> ELSE d.value

\* Faulty variant: a value the caller gave for the reserved key is kept.
MutKeepCallerSessionId(options, sid) ==
    [k \in DOMAIN options \cup {CONFKEY_SESSION_ID} |->
        IF k \in DOMAIN options THEN options[k] ELSE sid]

\* options.copy(); options[CONFKEY_SESSION_ID] = self._session_id
InjectSessionId(options, sid) ==
    [k \in DOMAIN options \cup {CONFKEY_SESSION_ID} |->
        IF k = CONFKEY_SESSION_ID THEN sid ELSE options[k]]

\* name = f"session_{self._session_id}" when name is empty.
DefaultName(name, sid) == IF name = <<>> THEN <<"session_">> \o sid ELSE name

\* Faulty variant: the handles are left open.
MutExitStackLeak(open_handles) == open_handles

\* Leaving the `with ExitStack()` block, normally or by an exception, closes
\* every handle entered into the stack.
ExitStackClose(open_handles) == {}

\* The entries the two comprehensions open, in order: files, then zipped_files.
OpenOrder(files, zipped_files) ==
    [i \in 1 .. Len(files) |-> [bucket |-> "files", key |-> i, path |-> files[i]]]
    \o [i \in 1 .. Len(zipped_files) |->
            [bucket |-> "zipped_files", key |-> i, path |-> zipped_files[i]]]

\* The mapping a comprehension built: entry key -> bytes read.
Bucket(b, order, data) ==
    LET idx == {i \in 1 .. Len(data) : order[i].bucket = b}
    IN [k \in {order[i].key : i \in idx} |->
            data[CHOOSE i \in idx : order[i].key = k]]

CallerOptions ==
    Optional(UNION {[ks -> {<<"bogus">>}] : ks \in SUBSET OptionKeys})

SubmitCall ==
    /\ CanCall
    /\ \E name \in {<<>>, <<"job">>},
          files \in Optional(SeqsUpTo(LocalPaths, MaxFiles)),
          zipped_files \in Optional(SeqsUpTo(LocalPaths, MaxZipped)),
          options \in CallerOptions :
        Begin("submit",
              [name |-> name, world_size |-> 1, command_arguments |-> None,
               environment_variables |-> None, files |-> files,
               zipped_files |-> zipped_files, resource_options |-> None,
               options |-> options],
              [resource_options |-> <<>>,
               name |-> DefaultName(name, session_id),
               options |-> InjectSessionId(OrEmpty(options), session_id),
               environment_variables |-> <<>>,
               order |-> OpenOrder(OrEmpty(files), OrEmpty(zipped_files)),
               data |-> <<>>],
              "submit_open")

\* open(path, "rb") and stack.enter_context for the next entry.
SubmitOpen ==
    /\ pc = "submit_open"
    /\ Len(local.data) < Len(local.order)
    /\ \E ok \in BOOLEAN :
          IF ok
          THEN /\ handles' = handles \cup {Len(local.data) + 1}
               /\ pc' = "submit_read"
               /\ UNCHANGED <<outcome, result>>
          ELSE /\ handles' = ExitStackClose(handles)
               /\ Raise("OSError")
    /\ UNCHANGED <<handle, op, args, local, requests, now, fs, writes>>

\* .read() on the handle just opened.
SubmitRead ==
    /\ pc = "submit_read"
    /\ \E ok \in BOOLEAN :
          IF ok
          THEN /\ local' = [local EXCEPT !.data =
                    Append(@, FileContent(local.order[Len(@) + 1].path))]
               /\ pc' = "submit_open"
               /\ UNCHANGED <<handles, outcome, result>>
          ELSE /\ handles' = ExitStackClose(handles)
               /\ Raise("OSError")
               /\ UNCHANGED local
    /\ UNCHANGED <<handle, op, args, requests, now, fs, writes>>

\* Both comprehensions are done: the with block ends.
SubmitExitStack ==
    /\ pc = "submit_open"
    /\ Len(local.data) = Len(local.order)
    /\ handles' = ExitStackClose(handles)
    /\ pc' = "submit_dispatch"
    /\ UNCHANGED <<handle, op, args, local, requests, now, fs, writes, outcome, result>>

SubmitJobRequest ==
    [session_id |-> session_id,
     name |-> local.name,
     job_type |-> "deepspeed",
     world_size |-> args.world_size,
     command_arguments |-> args.command_arguments,
     environment_variables |-> local.environment_variables,
     files |-> Bucket("files", local.order, local.data),
     zipped_files |-> Bucket("zipped_files", local.order, local.data),
     resource_options |-> [timeout_seconds |-> DefaultTimeoutSeconds,
                           resource_exhausted_strategy |-> "waiting"],
     options |-> local.options]

SubmitDispatch ==
    /\ pc = "submit_dispatch"
    /\ requests' = Dispatch("SUBMIT_JOB", SubmitJobRequest)
    /\ \E ok \in BOOLEAN :
          IF ok THEN Return("SubmitJobResponse") ELSE Raise("TransportError")
    /\ UNCHANGED <<handle, op, args, local, now, handles, fs, writes>>

----------------------------------------------------------------------------
(* download_job and download_job_to *)

CompressLevels == {-1, 0, 9, 10}

CompressMethods == {"zip", "tar"}

\* Faulty variant: compress_level 10 passes.
MutValidateOffByOne(compress_method, compress_level) ==
    IF compress_level < 0 \/ compress_level > 10 THEN "ValueError"
    ELSE IF compress_method \notin {"zip"} THEN "ValueError"
    ELSE None

\* The two argument checks of download_job; the value is the error raised.
Validate(compress_method, compress_level) ==
    IF compress_level < 0 \/ compress_level > 9 THEN "ValueError"
    ELSE IF compress_method \notin {"zip"} THEN "ValueError"
    ELSE None

PathFunctions == {"default", "by_dir"}

\* rank_to_path: the default lambda, or one supplied by the caller.
RankToPath(f, rank) ==
    IF f = "default" THEN <<"rank_", rank, ".zip">> ELSE <<"out/", rank, "/job.zip">>

\* range(n)
Range(n) == [i \in 1 .. n |-> i - 1]

\* The ranks download_job_to iterates over.
RanksOrRange(ranks, container_content) ==
    IF ~ranks.given THEN Range(Len(container_content)) ELSE ranks.value

\* Faulty variant: the entries are paired with their positions.
MutZipIgnoresRanks(ranks, container_content) ==
    [i \in 1 .. Min(Len(ranks), Len(container_content)) |->
        [rank |-> i - 1, content |-> container_content[i]]]

\* zip(ranks, container_content)
Zip(ranks, container_content) ==
    [i \in 1 .. Min(Len(ranks), Len(container_content)) |->
        [rank |-> ranks[i], content |-> container_content[i]]]

\* Faulty variant: the error is dropped and the loop goes on.
MutWriteErrorSkipped(err) == [pc |-> "dlto_write", outcome |-> "none", result |-> None]

\* Where control goes when open(path, "wb") or f.write raises inside the for
\* loop: nothing catches it.
WriteError(err) == [pc |-> "done", outcome |-> "raised", result |-> err]

DownloadCall ==
    /\ CanCall
    /\ \E o \in {"download_job", "download_job_to"},
          ranks \in Optional(SeqsUpTo(Ranks, MaxRanks)),
          content_type \in ContentType,
          compress_method \in CompressMethods,
          compress_level \in CompressLevels,
          rank_to_path \in PathFunctions :
        /\ o = "download_job" => rank_to_path = "default"
        /\ Begin(o,
                 [ranks |-> ranks, content_type |-> content_type,
                  rank_to_path |-> rank_to_path,
                  compress_method |-> compress_method,
                  compress_level |-> compress_level],
                 [download_job_response |-> None, pairs |-> <<>>, i |-> 1,
                  failed_at |-> 0],
                 "dl_validate")

DownloadValidate ==
    /\ pc = "dl_validate"
    /\ LET err == Validate(args.compress_method, args.compress_level)
       IN IF err # None
          THEN Raise(err)
          ELSE pc' = "dl_dispatch" /\ UNCHANGED <<outcome, result>>
    /\ UNCHANGED <<handle, op, args, local, requests, now, handles, fs, writes>>

DownloadJobRequest ==
    [session_id |-> session_id,
     ranks |-> IF ~args.ranks.given THEN <<>> ELSE args.ranks.value,
     compress_method |-> args.compress_method,
     compress_level |-> args.compress_level,
     content_type |-> to_proto(args.content_type)]

\* The request is sent; the server answers with any number of content
\* entries, or the transport fails.  download_job returns the response;
\* download_job_to goes on to pair it with the ranks.
DownloadDispatch ==
    /\ pc = "dl_dispatch"
    /\ requests' = Dispatch("DOWNLOAD_JOB", DownloadJobRequest)
    /\ \/ /\ Raise("TransportError")
          /\ UNCHANGED local
       \/ \E container_content \in SeqsUpTo(Bytes, MaxContent) :
             IF op = "download_job"
             THEN /\ Return([container_content |-> container_content])
                  /\ local' = [local EXCEPT !.download_job_response = container_content]
             ELSE /\ local' = [local EXCEPT
                        !.download_job_response = container_content,
                        !.pairs = Zip(RanksOrRange(args.ranks, container_content),
                                      container_content)]
                  /\ pc' = "dlto_write"
                  /\ UNCHANGED <<outcome, result>>
    /\ UNCHANGED <<handle, op, args, now, handles, fs, writes>>

\* One turn of the for loop: open(path, "wb") and f.write(content.content).
\* The open can fail (nothing is touched), the write can fail (the file was
\* already truncated by the open), or both succeed.
DownloadToWrite ==
    /\ pc = "dlto_write"
    /\ local.i <= Len(local.pairs)
    /\ LET pair == local.pairs[local.i]
           path == RankToPath(args.rank_to_path, pair.rank)
       IN \E res \in {"ok", "open fails", "write fails"} :
            IF res = "ok"
            THEN /\ fs' = (path :> pair.content) @@ fs
                 /\ writes' = Append(writes, <<path, pair.content>>)
                 /\ local' = [local EXCEPT !.i = @ + 1]
                 /\ UNCHANGED <<pc, outcome, result>>
            ELSE /\ fs' = IF res = "write fails" THEN (path :> "") @@ fs ELSE fs
                 /\ writes' = writes
                 /\ local' = [local EXCEPT !.failed_at = IF @ = 0 THEN local.i ELSE @]
                 /\ LET to == WriteError("OSError")
                    IN pc' = to.pc /\ outcome' = to.outcome /\ result' = to.result
    /\ UNCHANGED <<handle, op, args, requests, now, handles>>

\* The for loop is exhausted: download_job_to returns None.
DownloadToDone ==
    /\ pc = "dlto_write"
    /\ local.i > Len(local.pairs)
    /\ Return(None)
    /\ UNCHANGED <<handle, op, args, local, requests, now, handles, fs, writes>>

----------------------------------------------------------------------------
(* cleanup *)

\* Faulty variant: the handler lets the error out.
MutExceptReraises(err) == [outcome |-> "raised", result |-> err]

\* except Exception: pass
ExceptException(err) == [outcome |-> "returned", result |-> None]

CleanupCall ==
    /\ CanCall
    /\ Begin("cleanup", <<>>, [destroyed |-> None, caught |-> None], "cleanup_destroy")

\* destroy(self._get_client(), self._session_id) inside the try: it returns,
\* or it raises and the handler runs.
CleanupDestroy ==
    /\ pc = "cleanup_destroy"
    /\ pc' = "done"
    /\ \E err \in {None, "RpcError", "RuntimeError"} :
          /\ local' = [destroyed |-> [client |-> GetClient, session_id |-> session_id],
                       caught |-> err]
          /\ IF err = None
             THEN outcome' = "returned" /\ result' = None
             ELSE LET h == ExceptException(err)
                  IN outcome' = h.outcome /\ result' = h.result
    /\ UNCHANGED <<handle, op, args, requests, now, handles, fs, writes>>

----------------------------------------------------------------------------

\* The caller has the result (or the error) of the call that ended and is
\* free to call again; what the next call observes starts afresh.
CallEnds ==
    /\ pc = "done"
    /\ pc' = "idle"
    /\ op' = "none"
    /\ args' = <<>>
    /\ local' = <<>>
    /\ requests' = <<>>
    /\ now' = 0
    /\ handles' = {}
    /\ fs' = <<>>
    /\ writes' = <<>>
    /\ outcome' = "none"
    /\ result' = None
    /\ UNCHANGED handle

Next ==
    \/ CallEnds
    \/ SimpleCall
    \/ SimpleDispatch
    \/ AwaitCall
    \/ AwaitFirstQuery
    \/ AwaitLoopCond
    \/ AwaitCheck
    \/ AwaitQuery
    \/ AwaitSleep
    \/ SubmitCall
    \/ SubmitOpen
    \/ SubmitRead
    \/ SubmitExitStack
    \/ SubmitDispatch
    \/ DownloadCall
    \/ DownloadValidate
    \/ DownloadDispatch
    \/ DownloadToWrite
    \/ DownloadToDone
    \/ CleanupCall
    \/ CleanupDestroy

Spec == Init /\ [][Next]_vars

\* The caller is one running thread: a step that can be taken is taken.
FairSpec == Spec /\ WF_vars(Next)

----------------------------------------------------------------------------
(* Properties of await_finished *)

NonTerminal == {"NEW", "ACTIVE"}

AwaitReturned == op = "await_finished" /\ pc = "done" /\ outcome = "returned"

AwaitForever == op = "await_finished" /\ args.timeout <= 0

AwaitTimed == op = "await_finished" /\ args.timeout > 0

C1_Safety ==
    AwaitForever =>
        /\ \A k \in 1 .. Len(local.seen) - 1 : local.seen[k] \in NonTerminal
        /\ outcome # "raised" => Len(requests) = Len(local.seen)
        /\ \A i \in 1 .. Len(requests) : requests[i].command_uri = "QUERY_JOB_STATUS"
        /\ AwaitReturned =>
              /\ Len(local.seen) >= 1
              /\ result = local.seen[Len(local.seen)]
              /\ result \notin NonTerminal

C1_Terminates ==
    (AwaitForever /\ Len(local.seen) >= 1 /\ local.seen[Len(local.seen)] \notin NonTerminal)
        ~> AwaitReturned

\* C1: with timeout <= 0 and no failing query, await_finished keeps polling
\* while the status is NEW or ACTIVE and stops at the first other status: when
\* that status is the k-th answer the call returns it, having issued exactly k
\* status queries and nothing else; it never returns NEW or ACTIVE.
C1_AwaitForeverReturnsFirstTerminal == []C1_Safety /\ C1_Terminates

C1_Witness ==
    /\ AwaitReturned
    /\ args.timeout = 0
    /\ args.poll_interval = 0
    /\ local.seen = <<"ACTIVE", "ACTIVE", "FINISHED">>
    /\ Len(requests) = 3
    /\ result = "FINISHED"

C2_Safety ==
    (AwaitTimed /\ args.poll_interval > 0) =>
        /\ pc \in {"await_check", "await_query"} => now < local.deadline
        /\ Len(local.seen) >= 2 =>
              (Len(local.seen) - 2) * args.poll_interval < args.timeout
        /\ (pc = "done" /\ outcome = "raised") => result = "TransportError"
        /\ AwaitReturned =>
              /\ result = local.seen[Len(local.seen)]
              /\ Len(requests) = Len(local.seen)
              /\ result \in NonTerminal => now >= local.deadline
              /\ now < local.deadline + args.poll_interval + MaxLatency

C2_Terminates ==
    (AwaitTimed /\ args.poll_interval > 0 /\ pc # "done") ~> (pc = "done")

\* C2: with timeout > 0 and poll_interval > 0 await_finished terminates for
\* every sequence of answers: no turn of the loop starts once the deadline has
\* elapsed, the number of queries is bounded by the timeout, the only error is
\* a failing query (timing out raises nothing), and the value returned is the
\* status of the last query issued, NEW or ACTIVE included.
C2_AwaitTimedTerminates == []C2_Safety /\ C2_Terminates

C2_Witness ==
    /\ AwaitReturned
    /\ args.timeout = 1
    /\ args.poll_interval = 1
    /\ \A k \in 1 .. Len(local.seen) : local.seen[k] = "ACTIVE"
    /\ result = "ACTIVE"
    /\ now >= local.deadline

\* C9 as amended: with timeout > 0 every sleep lasts the whole poll_interval,
\* also when it ends after the deadline, so the call can return late; but
\* every status query is issued right after a deadline check that passed
\* (the clock, which moves during queries and sleeps, still reads less than
\* the deadline), and the call returns without a query after its last sleep.
C9_SleepUnclampedQueriesGated ==
    AwaitTimed =>
        /\ \A i \in 1 .. Len(local.slept) : local.slept[i] = args.poll_interval
        /\ Len(requests) >= 1 => local.issued_at < local.deadline
        /\ AwaitReturned => Len(requests) = 1 + Len(local.slept)

C9_Witness ==
    /\ AwaitReturned
    /\ args.timeout > 0
    /\ Len(local.slept) >= 1
    /\ now > local.deadline
    /\ local.issued_at < local.deadline
    /\ result \in NonTerminal

\* C9 as stated: the status check that follows a sleep is not gated by the
\* deadline, that is, after a sleep of a call with timeout > 0 control goes on
\* to the status check (and from there to a query) whatever the clock reads.
C9_CheckAfterSleepNotGated ==
    [][(op = "await_finished" /\ pc = "await_loop" /\ args.timeout > 0
            /\ Len(local.slept) >= 1)
        => pc' = "await_check"]_vars

----------------------------------------------------------------------------
(* Properties of download_job and download_job_to *)

Downloading == op \in {"download_job", "download_job_to"}

DownloadedTo == op = "download_job_to" /\ pc = "done" /\ outcome = "returned"

BadCompressArgs == args.compress_level \notin 0 .. 9 \/ args.compress_method # "zip"

\* The bytes the file at path p holds after the writes in w.
RECURSIVE FileAfter(_, _)
FileAfter(w, p) ==
    IF w = <<>> THEN NoFile
    ELSE IF w[Len(w)][1] = p THEN w[Len(w)][2]
    ELSE FileAfter(SubSeq(w, 1, Len(w) - 1), p)

\* The writes that pairing ranks rs with the entries cs calls for.
ExpectedWrites(rs, cs) ==
    [i \in 1 .. Len(cs) |-> <<RankToPath(args.rank_to_path, rs[i]), cs[i]>>]

\* C3: download_job, and download_job_to through it, called with a
\* compress_level outside 0..9 or a compress_method other than "zip" raises
\* ValueError with no request dispatched and no file written; with valid
\* arguments exactly one request is dispatched, a DOWNLOAD_JOB request.
C3_ValidationBeforeDispatch ==
    Downloading =>
        /\ BadCompressArgs =>
              /\ requests = <<>>
              /\ writes = <<>>
              /\ DOMAIN fs = {}
              /\ pc \in {"dl_validate", "done"}
              /\ pc = "done" => (outcome = "raised" /\ result = "ValueError")
        /\ (~BadCompressArgs /\ pc = "done") =>
              /\ Len(requests) = 1
              /\ requests[1].command_uri = "DOWNLOAD_JOB"
        /\ Len(requests) <= 1

C3_Witness ==
    /\ op = "download_job_to"
    /\ pc = "done"
    /\ args.compress_level = 10
    /\ args.compress_method = "zip"
    /\ result = "ValueError"
    /\ requests = <<>>

\* C4: download_job_to given a non-empty ranks list and a response with as
\* many content entries, all writes succeeding, performs exactly those n
\* writes in list order, the i-th to rank_to_path(ranks[i]) with the bytes of
\* the i-th entry, and leaves nothing else written.
C4_RankPairing ==
    (/\ DownloadedTo
     /\ args.ranks.given
     /\ Len(args.ranks.value) >= 1
     /\ Len(local.download_job_response) = Len(args.ranks.value))
    => /\ writes = ExpectedWrites(args.ranks.value, local.download_job_response)
       /\ DOMAIN fs = {writes[i][1] : i \in 1 .. Len(writes)}
       /\ \A p \in DOMAIN fs : fs[p] = FileAfter(writes, p)

C4_Witness ==
    /\ DownloadedTo
    /\ args.ranks = Given(<<2, 5>>)
    /\ args.rank_to_path = "default"
    /\ local.download_job_response = <<"b1", "b2">>
    /\ writes = << <<RankToPath("default", 2), "b1">>, <<RankToPath("default", 5), "b2">> >>

\* C5: download_job_to pairs the content entries with 0..count-1 whenever
\* ranks is absent or an empty list: with count >= 1 entries exactly count
\* files are written, to rank_to_path(0) .. rank_to_path(count-1).
C5_EmptyRanksMeansRange ==
    (/\ DownloadedTo
     /\ (~args.ranks.given \/ args.ranks.value = <<>>)
     /\ Len(local.download_job_response) >= 1)
    => writes = ExpectedWrites(Range(Len(local.download_job_response)),
                               local.download_job_response)

\* C10: when the write for the i-th pair fails, download_job_to raises that
\* error, the loop never moves on to a later pair, and the i-1 earlier writes
\* stay: their files
\* exist, and hold what was written unless the failing write went to the
\* same path.
C10_PartialFailure ==
    (op = "download_job_to" /\ local.failed_at # 0) =>
        LET i == local.failed_at
            failing == RankToPath(args.rank_to_path, local.pairs[i].rank)
        IN /\ pc = "done"
           /\ outcome = "raised"
           /\ result = "OSError"
           /\ local.i = i
           /\ writes = [j \in 1 .. i - 1 |->
                          <<RankToPath(args.rank_to_path, local.pairs[j].rank),
                            local.pairs[j].content>>]
           /\ \A j \in 1 .. i - 1 :
                 /\ writes[j][1] \in DOMAIN fs
                 /\ writes[j][1] # failing => fs[writes[j][1]] = FileAfter(writes, writes[j][1])

C10_Witness ==
    /\ op = "download_job_to"
    /\ pc = "done"
    /\ local.failed_at = 2
    /\ Len(local.pairs) >= 2
    /\ Len(writes) = 1
    /\ outcome = "raised"

----------------------------------------------------------------------------
(* Properties of submit *)

\* C6: submit fails fast.  An entry of files or zipped_files that cannot be
\* opened or read ends submit in that error with no request dispatched and
\* every handle opened so far closed; when all are read, every handle is
\* closed before the one SUBMIT_JOB request is dispatched, and the request
\* holds all the entries.
C6_SubmitFailFast ==
    op = "submit" =>
        /\ (pc = "done" /\ outcome = "raised" /\ result = "OSError") =>
              (requests = <<>> /\ handles = {})
        /\ pc = "submit_dispatch" => (handles = {} /\ requests = <<>>)
        /\ Len(requests) <= 1
        /\ Len(requests) = 1 =>
              /\ handles = {}
              /\ requests[1].command_uri = "SUBMIT_JOB"
              /\ Len(local.data) = Len(local.order)
              /\ DOMAIN requests[1].request.files = 1 .. Len(OrEmpty(args.files))
              /\ DOMAIN requests[1].request.zipped_files = 1 .. Len(OrEmpty(args.zipped_files))

C6_Witness ==
    /\ op = "submit"
    /\ pc = "done"
    /\ outcome = "raised"
    /\ result = "OSError"
    /\ Len(local.data) >= 1
    /\ Len(local.data) < Len(local.order)
    /\ requests = <<>>
    /\ handles = {}

----------------------------------------------------------------------------
(* Properties of the handle *)

\* C7: whatever was called, session_id is the value __init__ set, every
\* request dispatched (and the destroy call of cleanup) carries it, and the
\* options of a SUBMIT_JOB request hold it under the reserved key, whatever
\* the caller put there.
C7_SessionIdFixed ==
    /\ session_id = constructed.session_id
    /\ \A i \in 1 .. Len(requests) :
          /\ requests[i].request.session_id = constructed.session_id
          /\ requests[i].command_uri = "SUBMIT_JOB" =>
                requests[i].request.options[CONFKEY_SESSION_ID] = constructed.session_id
    /\ (op = "cleanup" /\ pc = "done") =>
          local.destroyed.session_id = constructed.session_id

C7_Witness ==
    /\ op = "submit"
    /\ pc = "done"
    /\ args.options.given
    /\ CONFKEY_SESSION_ID \in DOMAIN args.options.value
    /\ args.options.value[CONFKEY_SESSION_ID] = <<"bogus">>
    /\ Len(requests) = 1
    /\ requests[1].request.options[CONFKEY_SESSION_ID] = session_id

\* C8: cleanup returns normally (None) also when destroy raised, and leaves
\* session_id and the endpoint as __init__ set them.
C8_CleanupNeverRaises ==
    (op = "cleanup" /\ pc = "done") =>
        /\ outcome = "returned"
        /\ result = None
        /\ session_id = constructed.session_id
        /\ host = constructed.host
        /\ port = constructed.port

C8_Witness ==
    /\ op = "cleanup"
    /\ pc = "done"
    /\ local.caught = "RpcError"
    /\ outcome = "returned"

====
